---------------------------- MODULE Spec2Model ----------------------------
(***************************************************************************)
(* Model of the k8s-landingpage collector: the synchronous first build in  *)
(* start_collector, the background refresh loop run_collector_task, the    *)
(* multi-cluster build collect_for_all_clusters with its await points, and *)
(* the index handler reading the shared RwLock<IngressCollection>         *)
(* (Spec, FairSpec, StableSpec); one remote cluster aggregated on its own  *)
(* from bounded inputs (ClusterSpec); and the OIDC middleware of api.rs    *)
(* (OidcSpec).                                                             *)
(*                                                                         *)
(* Option<T> is a sequence of length at most one: None is <<>>, Some(x) is *)
(* <<x>>.  Result<T> is a record with the field ok.  A BTreeMap is a       *)
(* function whose DOMAIN is its key set.                                   *)
(***************************************************************************)
EXTENDS Integers, Sequences, FiniteSets, TLC

(***************************************************************************)
(* Bounds of the model.                                                    *)
(***************************************************************************)
\* number of concurrent requests to the index handler
NumReaders == 2
\* length of the explicit namespace lists of the modelled configurations
MaxNamespaces == 2

None == <<>>
Some(x) == <<x>>

Ok(v) == [ok |-> TRUE, val |-> v]
Err(e) == [ok |-> FALSE, err |-> e]

NAME_ANNOTATION == "landingpage.info/name"
DESCRIPTION_ANNOTATION == "landingpage.info/description"

EmptyMap == [k \in {} |-> ""]

\* BTreeMap::get
MapGet(m, k) == IF k \in DOMAIN m THEN Some(m[k]) ELSE None

\* Option::unwrap_or
UnwrapOr(o, d) == IF o = None THEN d ELSE o[1]

RECURSIVE Flatten(_)
\* Vec::append over a sequence of vectors, in order
Flatten(ss) == IF ss = <<>> THEN <<>> ELSE Head(ss) \o Flatten(Tail(ss))

(***************************************************************************)
(* collect_ingresses: the filter and the rule/path fan-out applied to the  *)
(* object list a list call returned.                                       *)
(***************************************************************************)
only_with_annotation(cfg) ==
    IF cfg.global = None THEN FALSE ELSE cfg.global[1].only_with_annotation

\* FilteredOut, but any annotation at all keeps the object
FilteredOutAnyAnnotation(owa, ingress) ==
    /\ owa
    /\ ingress.annotations = None

\* TRUE when the annotation filter drops the object
FilteredOut(owa, ingress) ==
    /\ owa
    /\ \/ ingress.annotations = None
       \/ /\ ingress.annotations # None
          /\ MapGet(ingress.annotations[1], NAME_ANNOTATION) = None
          /\ MapGet(ingress.annotations[1], DESCRIPTION_ANNOTATION) = None

IngressSpec(ingress, host, path) ==
    [name |-> ingress.name,
     namespace |-> UnwrapOr(ingress.namespace, "default"),
     host |-> host,
     tls_used |-> TRUE,
     path |-> path.path,
     annotations |-> UnwrapOr(ingress.annotations, EmptyMap),
     labels |-> UnwrapOr(ingress.labels, EmptyMap)]

\* RuleSpecs, but a rule without a host emits its paths with an empty host
RuleSpecsHostless(ingress, rule) ==
    LET paths == IF rule.http = None THEN <<>> ELSE rule.http[1].paths
    IN [k \in 1..Len(paths) |-> IngressSpec(ingress, UnwrapOr(rule.host, ""), paths[k])]

RuleSpecs(ingress, rule) ==
    IF rule.host = None
    THEN <<>>
    ELSE LET paths == IF rule.http = None THEN <<>> ELSE rule.http[1].paths
         IN [k \in 1..Len(paths) |-> IngressSpec(ingress, rule.host[1], paths[k])]

ObjectSpecs(owa, ingress) ==
    IF FilteredOut(owa, ingress) THEN <<>>
    ELSE IF ingress.spec = None THEN <<>>
    ELSE LET rules == UnwrapOr(ingress.spec[1].rules, <<>>)
         IN Flatten([k \in 1..Len(rules) |-> RuleSpecs(ingress, rules[k])])

\* the result of collect_ingresses for the outcome of its one list call
collect_ingresses(cfg, listed) ==
    IF ~listed.ok
    THEN Err([kind |-> "Kube", cause |-> "Api"])
    ELSE Ok(Flatten([k \in 1..Len(listed.val) |->
                        ObjectSpecs(only_with_annotation(cfg), listed.val[k])]))

(***************************************************************************)
(* transform_to_info                                                       *)
(***************************************************************************)
\* IngressInfo, but the name annotation counts only next to a description annotation
IngressInfoCoupled(i) ==
    [name |-> IF MapGet(i.annotations, DESCRIPTION_ANNOTATION) = None THEN i.name
              ELSE UnwrapOr(MapGet(i.annotations, NAME_ANNOTATION), i.name),
     description |-> UnwrapOr(MapGet(i.annotations, DESCRIPTION_ANNOTATION), ""),
     url |-> "https://" \o i.host \o UnwrapOr(i.path, "/")]

\* IngressInfo, but a record without path gets no trailing slash
IngressInfoNoSlash(i) ==
    [name |-> UnwrapOr(MapGet(i.annotations, NAME_ANNOTATION), i.name),
     description |-> UnwrapOr(MapGet(i.annotations, DESCRIPTION_ANNOTATION), ""),
     url |-> "https://" \o i.host \o UnwrapOr(i.path, "")]

IngressInfo(i) ==
    [name |-> UnwrapOr(MapGet(i.annotations, NAME_ANNOTATION), i.name),
     description |-> UnwrapOr(MapGet(i.annotations, DESCRIPTION_ANNOTATION), ""),
     url |-> "https://" \o i.host \o UnwrapOr(i.path, "/")]

transform_to_info(cluster_name, description, input) ==
    [name |-> cluster_name,
     description |-> UnwrapOr(description, ""),
     ingresses |-> [k \in 1..Len(input) |-> IngressInfo(input[k])]]

GroupInfo(name, clusters) == [name |-> name, clusters |-> clusters]

(***************************************************************************)
(* kubeconfig: credential resolution for one remote cluster.  A blob is    *)
(* described by what the three conversions make of it: yaml says whether   *)
(* serde_yaml parses it as a Kubeconfig, context whether                   *)
(* Config::from_custom_kubeconfig accepts the parsed document, and tls     *)
(* whether a Client can be built from the resulting Config.                *)
(***************************************************************************)
MissingKubeconfig(msg) == [kind |-> "MissingKubeconfig", cause |-> msg]

\* SecretValue, but an absent secret has an error kind of its own
SecretValueNotFound(got) ==
    IF ~got.ok THEN Err([kind |-> "NotFound", cause |-> "get"])
    ELSE IF got.val.data = None THEN Err(MissingKubeconfig("No data"))
    ELSE IF MapGet(got.val.data[1], "value") = None
         THEN Err(MissingKubeconfig("No data field kubeconfig"))
    ELSE Ok(MapGet(got.val.data[1], "value")[1])

\* lines 182-199: the secret, its data and the field "value"
SecretValue(got) ==
    IF ~got.ok THEN Err(MissingKubeconfig("get"))
    ELSE IF got.val.data = None THEN Err(MissingKubeconfig("No data"))
    ELSE IF MapGet(got.val.data[1], "value") = None
         THEN Err(MissingKubeconfig("No data field kubeconfig"))
    ELSE Ok(MapGet(got.val.data[1], "value")[1])

\* lines 201-202: serde_yaml::from_slice
ParseKubeconfig(blob) ==
    IF blob.yaml THEN Ok([context |-> blob.context, tls |-> blob.tls])
    ELSE Err(MissingKubeconfig("yaml"))

\* lines 204-207: kube::Config::from_custom_kubeconfig
FromCustomKubeconfig(kc) ==
    IF kc.context THEN Ok([accept_invalid_certs |-> FALSE, tls |-> kc.tls])
    ELSE Err(MissingKubeconfig("config"))

\* lines 208-209: accept_invalid_certs and Client::try_from
ClientTryFrom(c) ==
    LET cfg == [c EXCEPT !.accept_invalid_certs = TRUE]
    IN IF cfg.tls THEN Ok([accept_invalid_certs |-> cfg.accept_invalid_certs])
       ELSE Err([kind |-> "Kube", cause |-> "Client"])

\* the part of kubeconfig up to its second await
KubeconfigParsed(got) ==
    IF ~SecretValue(got).ok THEN SecretValue(got)
    ELSE ParseKubeconfig(SecretValue(got).val)

\* the part of kubeconfig after its second await
KubeconfigClient(kc) ==
    IF ~FromCustomKubeconfig(kc).ok THEN FromCustomKubeconfig(kc)
    ELSE ClientTryFrom(FromCustomKubeconfig(kc).val)

\* kubeconfig as a whole, for the outcome of its secret read
kubeconfig(got) ==
    IF ~KubeconfigParsed(got).ok THEN KubeconfigParsed(got)
    ELSE KubeconfigClient(KubeconfigParsed(got).val)

(***************************************************************************)
(* What the clusters can answer.                                           *)
(***************************************************************************)
Blobs ==
    {[yaml |-> FALSE, context |-> FALSE, tls |-> FALSE],
     [yaml |-> TRUE, context |-> FALSE, tls |-> FALSE],
     [yaml |-> TRUE, context |-> TRUE, tls |-> FALSE],
     [yaml |-> TRUE, context |-> TRUE, tls |-> TRUE]}

SecretOutcomes ==
    {Err("NotFound"), Ok([data |-> None])}
    \cup {Ok([data |-> Some([k \in {"other"} |-> b])]) : b \in Blobs}
    \cup {Ok([data |-> Some([k \in {"value"} |-> b])]) : b \in Blobs}

Path(p) == [path |-> p]
Rule(h, paths) == [host |-> h, http |-> Some([paths |-> paths])]

IngShop ==
    [name |-> "shop", namespace |-> Some("prod"),
     annotations |-> Some([k \in {NAME_ANNOTATION} |-> "Shop"]),
     labels |-> None,
     spec |-> Some([rules |-> Some(<<Rule(Some("a.example.com"),
                                         <<Path(Some("/app")), Path(None)>>),
                                    Rule(None, <<Path(Some("/x"))>>)>>)])]

IngApi ==
    [name |-> "api", namespace |-> None,
     annotations |-> None,
     labels |-> Some([k \in {"app"} |-> "api"]),
     spec |-> Some([rules |-> Some(<<Rule(Some("b.example.com"),
                                         <<Path(Some("/"))>>)>>)])]

IngBare ==
    [name |-> "bare", namespace |-> Some("prod"),
     annotations |-> Some([k \in {"team"} |-> "x"]),
     labels |-> None,
     spec |-> None]

ObjectLists == {<<IngShop, IngApi>>, <<IngApi, IngBare>>}

ListOutcomes == {Err("Api")} \cup {Ok(ol) : ol \in ObjectLists}

(***************************************************************************)
(* The configurations the model starts from.                               *)
(***************************************************************************)
NamespacePool == <<"prod", "dev", "ops", "qa">>
Namespaces == SubSeq(NamespacePool, 1, MaxNamespaces)

RemoteCluster(name, description, namespaces) ==
    [name |-> name, description |-> description,
     kubeconfig_secret |-> [name |-> name \o "-kubeconfig", namespace |-> "landingpage"],
     namespaces |-> namespaces]

Global(owa, interval) ==
    [only_with_annotation |-> owa, refresh_interval_seconds |-> interval]

LocalCluster(enabled, description, namespaces) ==
    [enabled |-> enabled, description |-> description, namespaces |-> namespaces]

Group(name, clusters) == [name |-> name, clusters |-> clusters]

Config(global, local, remote) ==
    [global |-> global, local |-> local, remote |-> remote]

Configs ==
    {Config(None,
            Some(LocalCluster(TRUE, Some("home"), Some(Namespaces))),
            None),
     Config(Some(Global(FALSE, Some(60))),
            Some(LocalCluster(TRUE, None, None)),
            Some(<<Group("staging", <<RemoteCluster("s1", None, None)>>),
                   Group("empty", <<>>)>>)),
     Config(Some(Global(TRUE, None)),
            Some(LocalCluster(FALSE, None, None)),
            Some(<<Group("prod", <<RemoteCluster("p1", Some("first"), Some(Namespaces)),
                                   RemoteCluster("p2", None, None)>>)>>)),
     Config(None, Some(LocalCluster(FALSE, None, Some(Namespaces))), Some(<<>>)),
     Config(None, None,
            Some(<<Group("dev", <<RemoteCluster("d1", None, Some(<<>>))>>)>>))}

LocalEnabled(cfg) == cfg.local # None /\ cfg.local[1].enabled

Remotes(cfg) == UnwrapOr(cfg.remote, <<>>)

(***************************************************************************)
(* State.                                                                  *)
(***************************************************************************)
VARIABLES
    config,          \* the Config read at startup
    mainPc,          \* main: "starting", "serving" or "failed" (unwrap panicked)
    taskPc,          \* run_collector_task: "none" (not spawned), "sleep", "build",
                     \* "write_wait", "write_held" or "exited"
    bpc,             \* the await point the running collect_for_all_clusters is at
    result,          \* its local Vec<GroupInfo>
    collected,       \* the Vec<IngressSpec> of the cluster being scanned
    nsIdx,           \* position in the namespace list being scanned
    grp,             \* position in config.remote
    cl,              \* position in the clusters of that group
    group_clusters,  \* the Vec<ClusterInfo> of that group
    kube,            \* the parsed Kubeconfig while from_custom_kubeconfig is pending
    ret,             \* the value collect_for_all_clusters returned, until its caller takes it
    new_info,        \* run_collector_task's new_info
    info,            \* the content of the Arc<RwLock<IngressCollection>>, None before it exists
    writer,          \* TRUE while a write guard of the RwLock exists
    rpc,             \* per request of index: "idle", "locked" or "cloned"
    view,            \* per request of index: the clone it renders
    returned,        \* history: the last collection a build returned with Ok
    published,       \* history: the returned collection last assigned to the handle
    hist,            \* history of the running build until its caller takes ret, see NoHist
    backing,         \* None, or what every call answers as long as the clusters do not change
    \* one remote cluster aggregated on its own (ClusterSpec)
    agStage,         \* "input", "resolved", "scanned", "done" or "omitted"
    agGlobal,        \* config.global
    agScans,         \* the object lists its namespaces answer, in list order
    agSecret,        \* what the secret read answered
    agClient,        \* what kubeconfig returned
    agRecords,       \* the Vec<IngressSpec> collected
    agInfo,          \* the ClusterInfo made of it
    \* the OIDC middleware (OidcSpec)
    now,             \* the clock, in seconds since init_oidc_state
    layer,           \* InnerOidcState::layer: None, or Some of the time of the discovery it is from
    last_update,     \* InnerOidcState::last_update
    renewal_interval,\* InnerOidcState::renewal_interval
    holder,          \* the request that holds the state mutex, 0 when it is free
    qpc              \* per request, its place in oidc_layer, see OidcPcs

agVars == <<agStage, agGlobal, agScans, agSecret, agClient, agRecords, agInfo>>
oidcVars == <<now, layer, last_update, renewal_interval, holder, qpc>>

buildVars == <<bpc, result, collected, nsIdx, grp, cl, group_clusters, kube, ret,
               returned, hist>>
collectorVars == <<config, mainPc, taskPc, bpc, result, collected, nsIdx, grp, cl,
                   group_clusters, kube, ret, new_info, info, writer, rpc, view,
                   returned, published, hist, backing>>
vars == <<collectorVars, agVars, oidcVars>>

\* remoteStarted: collect_from_remote was called; localFailed: a scan of the local
\* cluster failed; omitted: the <<group, cluster>> positions for which
\* collect_from_remote returned None; nsFailed: the <<group, cluster>> positions
\* of which the scan of a listed namespace failed; lastListed: what the list call
\* of the last step answered, when that step was the scan of a remote namespace
NoHist ==
    [remoteStarted |-> FALSE, localFailed |-> FALSE, omitted |-> {},
     nsFailed |-> {}, lastListed |-> None]

Readers == 1..NumReaders

RemotePcs == {"remote_secret", "remote_config", "remote_ns", "remote_all"}
\* the await points of a build: a call to a cluster or to the client library is pending
PendingPcs == {"try_default", "local_ns", "local_all"} \cup RemotePcs

(***************************************************************************)
(* Control flow of collect_for_all_clusters between two await points.  The *)
(* operators give the locals of the build at its next await point, or at   *)
(* its return.                                                             *)
(***************************************************************************)
Frame ==
    [bpc |-> "idle", result |-> <<>>, collected |-> <<>>, nsIdx |-> 0, grp |-> 0,
     cl |-> 0, group_clusters |-> <<>>, kube |-> None, ret |-> None]

\* variant: the groups of a build are appended to those of the build before
ReturnedAccumulated(r) ==
    [Frame EXCEPT !.bpc = "ret",
                  !.ret = Some(IF r.ok /\ returned # None
                               THEN Ok(returned[1] \o r.val) ELSE r)]

\* collect_for_all_clusters returns r; its locals are dropped
Returned(r) == [Frame EXCEPT !.bpc = "ret", !.ret = Some(r)]

\* collect_from_remote is called for cluster c of group g: kubeconfig awaits the secret
AwaitRemote(res, g, c, gc) ==
    [Frame EXCEPT !.bpc = "remote_secret", !.result = res, !.grp = g, !.cl = c,
                  !.group_clusters = gc]

RECURSIVE RemoteLoop(_, _)
\* lines 115-131: the loop over the groups, entered at group g
RemoteLoop(res, g) ==
    IF g > Len(Remotes(config)) THEN Returned(Ok(res))
    ELSE IF Len(Remotes(config)[g].clusters) = 0
         THEN RemoteLoop(Append(res, GroupInfo(Remotes(config)[g].name, <<>>)), g + 1)
    ELSE AwaitRemote(res, g, 1, <<>>)

\* variant: a group left without clusters is not pushed
ClusterDoneSkipEmpty(res, g, c, gc) ==
    IF c < Len(Remotes(config)[g].clusters)
    THEN AwaitRemote(res, g, c + 1, gc)
    ELSE IF gc = <<>> THEN RemoteLoop(res, g + 1)
    ELSE RemoteLoop(Append(res, GroupInfo(Remotes(config)[g].name, gc)), g + 1)

\* lines 118-128: collect_from_remote returned for cluster c of group g
ClusterDone(res, g, c, gc) ==
    IF c < Len(Remotes(config)[g].clusters)
    THEN AwaitRemote(res, g, c + 1, gc)
    ELSE RemoteLoop(Append(res, GroupInfo(Remotes(config)[g].name, gc)), g + 1)

\* lines 108-112: the local group is pushed
LocalDone(res, specs) ==
    RemoteLoop(Append(res, GroupInfo("local",
                  <<transform_to_info("local", config.local[1].description, specs)>>)), 1)

\* lines 91-107: the local cluster, after the home client was built
LocalStart ==
    IF ~LocalEnabled(config) THEN RemoteLoop(<<>>, 1)
    ELSE IF config.local[1].namespaces = None
         THEN [Frame EXCEPT !.bpc = "local_all"]
    ELSE IF Len(config.local[1].namespaces[1]) = 0 THEN LocalDone(<<>>, <<>>)
    ELSE [Frame EXCEPT !.bpc = "local_ns", !.nsIdx = 1]

\* lines 147-161: the scans of a remote cluster, after its client was built
RemoteStart(res, g, c, gc) ==
    LET remote == Remotes(config)[g].clusters[c]
    IN IF remote.namespaces = None
       THEN [Frame EXCEPT !.bpc = "remote_all", !.result = res, !.grp = g, !.cl = c,
                          !.group_clusters = gc]
       ELSE IF Len(remote.namespaces[1]) = 0
            THEN ClusterDone(res, g, c,
                     Append(gc, transform_to_info(remote.name, remote.description, <<>>)))
       ELSE [Frame EXCEPT !.bpc = "remote_ns", !.result = res, !.grp = g, !.cl = c,
                          !.group_clusters = gc, !.nsIdx = 1]

\* variant: the build pushes its groups into the published collection itself
HandleDuringBuildShared(s) == IF info = None THEN info ELSE Some(s.result)

\* the build works on its own Vec (line 87): a step of it leaves the handle as it is
HandleDuringBuild(s) == info

\* the build moves to s
SetBuild(s) ==
    /\ bpc' = s.bpc
    /\ result' = s.result
    /\ collected' = s.collected
    /\ nsIdx' = s.nsIdx
    /\ grp' = s.grp
    /\ cl' = s.cl
    /\ group_clusters' = s.group_clusters
    /\ kube' = s.kube
    /\ ret' = s.ret
    /\ info' = HandleDuringBuild(s)
    /\ returned' = IF s.ret # None /\ s.ret[1].ok THEN Some(s.ret[1].val) ELSE returned
    /\ UNCHANGED <<config, backing, agVars, oidcVars, mainPc, taskPc, new_info, writer, rpc, view, published>>

\* the collector before main has run its first build
CollectorInit ==
    /\ config \in Configs
    /\ mainPc = "starting"
    /\ taskPc = "none"
    /\ bpc = "try_default"
    /\ result = <<>>
    /\ collected = <<>>
    /\ nsIdx = 0
    /\ grp = 0
    /\ cl = 0
    /\ group_clusters = <<>>
    /\ kube = None
    /\ ret = None
    /\ new_info = None
    /\ info = None
    /\ writer = FALSE
    /\ rpc = [r \in Readers |-> "idle"]
    /\ view = [r \in Readers |-> None]
    /\ returned = None
    /\ published = None
    /\ hist = NoHist

\* no cluster is aggregated on its own
AgIdle ==
    /\ agStage = "idle"
    /\ agGlobal = None
    /\ agScans = <<>>
    /\ agSecret = None
    /\ agClient = None
    /\ agRecords = <<>>
    /\ agInfo = None

\* no OIDC_ISSUER: the middleware is not installed
OidcIdle ==
    /\ now = 0
    /\ layer = None
    /\ last_update = 0
    /\ renewal_interval = None
    /\ holder = 0
    /\ qpc = <<>>

Init ==
    /\ CollectorInit
    /\ backing = None
    /\ AgIdle
    /\ OidcIdle

(***************************************************************************)
(* The calls of a build and what they answer.  While backing is None every *)
(* call may answer anything; a backing state fixes the answer of each call *)
(* by the cluster and namespace it goes to.                                *)
(***************************************************************************)
\* number of calls that fail in a backing state
MaxFailing == 1

Call(kind, g, c, n) == [kind |-> kind, grp |-> g, cl |-> c, ns |-> n]

\* the list calls of a cluster: one per namespace, or the cluster-wide one (0)
ListCalls(g, c, namespaces) ==
    IF namespaces = None THEN {Call("list", g, c, 0)}
    ELSE {Call("list", g, c, n) : n \in 1..Len(namespaces[1])}

\* every call a build of cfg can make; the local cluster is cluster 0 of group 0
Calls(cfg) ==
    {Call("home", 0, 0, 0)}
    \cup (IF LocalEnabled(cfg) THEN ListCalls(0, 0, cfg.local[1].namespaces) ELSE {})
    \cup UNION {UNION {{Call("secret", g, c, 0)}
                       \cup ListCalls(g, c, Remotes(cfg)[g].clusters[c].namespaces)
                       : c \in 1..Len(Remotes(cfg)[g].clusters)}
                : g \in 1..Len(Remotes(cfg))}

\* the ways a credential secret is broken
Flaws ==
    {Err("NotFound"),
     Ok([data |-> Some([k \in {"value"} |-> [yaml |-> FALSE, context |-> FALSE, tls |-> FALSE]])]),
     Ok([data |-> Some([k \in {"value"} |-> [yaml |-> TRUE, context |-> TRUE, tls |-> FALSE]])])}

GoodSecret ==
    Ok([data |-> Some([k \in {"value"} |-> [yaml |-> TRUE, context |-> TRUE, tls |-> TRUE]])])

\* the objects of a namespace
ObjectsAt(call) ==
    IF call.ns % 2 = 1 THEN <<IngShop, IngApi>> ELSE <<IngApi, IngBare>>

\* a backing state: the calls that fail, and how a failing secret is broken
Backings(cfg) ==
    {[failing |-> f, flaw |-> w] :
        f \in {x \in SUBSET Calls(cfg) : Cardinality(x) <= MaxFailing}, w \in Flaws}

\* the call the build is waiting for
CurrentCall ==
    CASE bpc = "try_default" -> Call("home", 0, 0, 0)
      [] bpc = "local_ns" -> Call("list", 0, 0, nsIdx)
      [] bpc = "local_all" -> Call("list", 0, 0, 0)
      [] bpc = "remote_secret" -> Call("secret", grp, cl, 0)
      [] bpc = "remote_ns" -> Call("list", grp, cl, nsIdx)
      [] bpc = "remote_all" -> Call("list", grp, cl, 0)

Fails(call) == call \in backing[1].failing

\* what kube::Client::try_default can answer
HomeAnswers == IF backing = None THEN BOOLEAN ELSE {~Fails(CurrentCall)}

\* what api.list can answer
ListAnswers ==
    IF backing = None THEN ListOutcomes
    ELSE {IF Fails(CurrentCall) THEN Err("Api") ELSE Ok(ObjectsAt(CurrentCall))}

\* what secret_api.get can answer
SecretAnswers ==
    IF backing = None THEN SecretOutcomes
    ELSE {IF Fails(CurrentCall) THEN backing[1].flaw ELSE GoodSecret}

(***************************************************************************)
(* collect_for_all_clusters, one action per await point.                   *)
(***************************************************************************)
\* line 88: kube::Client::try_default returns
ClientTryDefault ==
    /\ bpc = "try_default"
    /\ \E ok \in HomeAnswers :
          /\ SetBuild(IF ok THEN LocalStart
                      ELSE Returned(Err([kind |-> "Kube", cause |-> "InferConfig"])))
          /\ hist' = [hist EXCEPT !.remoteStarted = ok /\ LocalStart.bpc \in RemotePcs]

\* variant: a failing local namespace is logged and skipped, as for a remote cluster
LocalCollectNamespaceTolerant ==
    /\ bpc = "local_ns"
    /\ \E listed \in ListAnswers :
          LET r == collect_ingresses(config, listed)
              col == IF r.ok THEN collected \o r.val ELSE collected
              s == IF nsIdx < Len(config.local[1].namespaces[1])
                   THEN [Frame EXCEPT !.bpc = "local_ns", !.nsIdx = nsIdx + 1,
                                      !.collected = col]
                   ELSE LocalDone(result, col)
          IN /\ SetBuild(s)
             /\ hist' = [hist EXCEPT !.localFailed = @ \/ ~listed.ok,
                                     !.remoteStarted = s.bpc \in RemotePcs]

\* lines 96-100: collect_ingresses of one local namespace returns
LocalCollectNamespace ==
    /\ bpc = "local_ns"
    /\ \E listed \in ListAnswers :
          LET r == collect_ingresses(config, listed)
              s == IF ~r.ok THEN Returned(r)
                   ELSE IF nsIdx < Len(config.local[1].namespaces[1])
                        THEN [Frame EXCEPT !.bpc = "local_ns", !.nsIdx = nsIdx + 1,
                                           !.collected = collected \o r.val]
                   ELSE LocalDone(result, collected \o r.val)
          IN /\ SetBuild(s)
             /\ hist' = [hist EXCEPT !.localFailed = ~listed.ok,
                                     !.remoteStarted = s.bpc \in RemotePcs]

\* lines 102-106: the cluster-wide collect_ingresses of the local cluster returns
LocalCollectAll ==
    /\ bpc = "local_all"
    /\ \E listed \in ListAnswers :
          LET r == collect_ingresses(config, listed)
              s == IF ~r.ok THEN Returned(r) ELSE LocalDone(result, r.val)
          IN /\ SetBuild(s)
             /\ hist' = [hist EXCEPT !.localFailed = ~listed.ok,
                                     !.remoteStarted = s.bpc \in RemotePcs]

\* variant: a credential failure ends the loop over the clusters of the group
KubeconfigSecretGetAbortGroup ==
    /\ bpc = "remote_secret"
    /\ \E got \in SecretAnswers :
          LET k == KubeconfigParsed(got)
          IN /\ SetBuild(IF ~k.ok
                         THEN RemoteLoop(Append(result,
                                  GroupInfo(Remotes(config)[grp].name, group_clusters)),
                                  grp + 1)
                         ELSE [Frame EXCEPT !.bpc = "remote_config", !.result = result,
                                            !.grp = grp, !.cl = cl,
                                            !.group_clusters = group_clusters,
                                            !.kube = Some(k.val)])
             /\ hist' = IF k.ok THEN [hist EXCEPT !.lastListed = None]
                        ELSE [hist EXCEPT !.omitted = @ \cup {<<grp, cl>>},
                                          !.lastListed = None]

\* lines 182-202 (and 139-145): the secret read of kubeconfig returns
KubeconfigSecretGet ==
    /\ bpc = "remote_secret"
    /\ \E got \in SecretAnswers :
          LET k == KubeconfigParsed(got)
          IN /\ SetBuild(IF ~k.ok THEN ClusterDone(result, grp, cl, group_clusters)
                         ELSE [Frame EXCEPT !.bpc = "remote_config", !.result = result,
                                            !.grp = grp, !.cl = cl,
                                            !.group_clusters = group_clusters,
                                            !.kube = Some(k.val)])
             /\ hist' = IF k.ok THEN [hist EXCEPT !.lastListed = None]
                        ELSE [hist EXCEPT !.omitted = @ \cup {<<grp, cl>>},
                                          !.lastListed = None]

\* lines 204-209 (and 139-147): from_custom_kubeconfig returns
KubeconfigFromCustom ==
    /\ bpc = "remote_config"
    /\ SetBuild(IF ~KubeconfigClient(kube[1]).ok
                THEN ClusterDone(result, grp, cl, group_clusters)
                ELSE RemoteStart(result, grp, cl, group_clusters))
    /\ hist' = IF ~(kube[1].context /\ kube[1].tls)
               THEN [hist EXCEPT !.omitted = @ \cup {<<grp, cl>>}]
               ELSE hist

\* variant: the first failing namespace makes collect_from_remote return None
RemoteCollectNamespaceAbort ==
    /\ bpc = "remote_ns"
    /\ \E listed \in ListAnswers :
          LET remote == Remotes(config)[grp].clusters[cl]
              r == collect_ingresses(config, listed)
          IN /\ SetBuild(IF ~r.ok THEN ClusterDone(result, grp, cl, group_clusters)
                         ELSE IF nsIdx < Len(remote.namespaces[1])
                         THEN [Frame EXCEPT !.bpc = "remote_ns", !.result = result,
                                            !.grp = grp, !.cl = cl,
                                            !.group_clusters = group_clusters,
                                            !.nsIdx = nsIdx + 1,
                                            !.collected = collected \o r.val]
                         ELSE ClusterDone(result, grp, cl,
                                  Append(group_clusters,
                                      transform_to_info(remote.name, remote.description,
                                                        collected \o r.val))))
             /\ hist' = [hist EXCEPT !.lastListed = Some(listed),
                                     !.nsFailed = IF listed.ok THEN @
                                                  ELSE @ \cup {<<grp, cl>>}]

\* lines 149-159: collect_ingresses of one namespace of a remote cluster returns
RemoteCollectNamespace ==
    /\ bpc = "remote_ns"
    /\ \E listed \in ListAnswers :
          LET remote == Remotes(config)[grp].clusters[cl]
              r == collect_ingresses(config, listed)
              col == IF r.ok THEN collected \o r.val ELSE collected
          IN /\ SetBuild(IF nsIdx < Len(remote.namespaces[1])
                         THEN [Frame EXCEPT !.bpc = "remote_ns", !.result = result,
                                            !.grp = grp, !.cl = cl,
                                            !.group_clusters = group_clusters,
                                            !.nsIdx = nsIdx + 1, !.collected = col]
                         ELSE ClusterDone(result, grp, cl,
                                  Append(group_clusters,
                                      transform_to_info(remote.name, remote.description, col))))
             /\ hist' = [hist EXCEPT !.lastListed = Some(listed),
                                     !.nsFailed = IF listed.ok THEN @
                                                  ELSE @ \cup {<<grp, cl>>}]

\* variant: the error of the cluster-wide scan is propagated with `?`
RemoteCollectAllPropagate ==
    /\ bpc = "remote_all"
    /\ \E listed \in ListAnswers :
          LET remote == Remotes(config)[grp].clusters[cl]
              r == collect_ingresses(config, listed)
          IN /\ SetBuild(IF ~r.ok THEN Returned(r)
                         ELSE ClusterDone(result, grp, cl,
                                  Append(group_clusters,
                                      transform_to_info(remote.name, remote.description,
                                                        r.val))))
             /\ hist' = IF listed.ok THEN [hist EXCEPT !.lastListed = None]
                        ELSE [hist EXCEPT !.omitted = @ \cup {<<grp, cl>>},
                                          !.lastListed = None]

\* lines 161-171: the cluster-wide collect_ingresses of a remote cluster returns
RemoteCollectAll ==
    /\ bpc = "remote_all"
    /\ \E listed \in ListAnswers :
          LET remote == Remotes(config)[grp].clusters[cl]
              r == collect_ingresses(config, listed)
          IN /\ SetBuild(ClusterDone(result, grp, cl,
                             IF r.ok
                             THEN Append(group_clusters,
                                      transform_to_info(remote.name, remote.description, r.val))
                             ELSE group_clusters))
             /\ hist' = IF listed.ok THEN [hist EXCEPT !.lastListed = None]
                        ELSE [hist EXCEPT !.omitted = @ \cup {<<grp, cl>>},
                                          !.lastListed = None]

(***************************************************************************)
(* start_collector and main.                                               *)
(***************************************************************************)
\* variant: a failed first build is replaced by an empty collection and served
StartCollectorReturnDegraded ==
    /\ mainPc = "starting"
    /\ bpc = "ret"
    /\ info' = Some(IF ret[1].ok THEN ret[1].val ELSE <<>>)
    /\ published' = returned
    /\ taskPc' = "sleep"
    /\ mainPc' = "serving"
    /\ bpc' = "idle"
    /\ ret' = None
    /\ hist' = NoHist
    /\ UNCHANGED <<config, backing, agVars, oidcVars, result, collected, nsIdx, grp, cl, group_clusters, kube,
                   new_info, writer, rpc, view, returned>>

\* collector.rs lines 59-62 and main.rs lines 16-17: the first build returned
StartCollectorReturn ==
    /\ mainPc = "starting"
    /\ bpc = "ret"
    /\ IF ret[1].ok
       THEN /\ info' = Some(ret[1].val)
            /\ published' = returned
            /\ taskPc' = "sleep"
            /\ mainPc' = "serving"
       ELSE /\ mainPc' = "failed"
            /\ UNCHANGED <<info, published, taskPc>>
    /\ bpc' = "idle"
    /\ ret' = None
    /\ hist' = NoHist
    /\ UNCHANGED <<config, backing, agVars, oidcVars, result, collected, nsIdx, grp, cl, group_clusters, kube,
                   new_info, writer, rpc, view, returned>>

(***************************************************************************)
(* run_collector_task.                                                     *)
(***************************************************************************)
\* variant: the write guard is taken before the build instead of after it
TaskSleepLocked ==
    /\ taskPc = "sleep"
    /\ \A r \in Readers : rpc[r] = "idle"
    /\ writer' = TRUE
    /\ taskPc' = "build"
    /\ bpc' = "try_default"
    /\ UNCHANGED <<config, backing, agVars, oidcVars, mainPc, result, collected, nsIdx, grp, cl, group_clusters,
                   kube, ret, new_info, info, rpc, view, returned, published,
                   hist>>

\* lines 72-74: the sleep is over and collect_for_all_clusters is called
TaskSleep ==
    /\ taskPc = "sleep"
    /\ taskPc' = "build"
    /\ bpc' = "try_default"
    /\ UNCHANGED <<config, backing, agVars, oidcVars, mainPc, result, collected, nsIdx, grp, cl, group_clusters,
                   kube, ret, new_info, info, writer, rpc, view, returned, published,
                   hist>>

\* variant: a failed build resets the published collection to the empty one
TaskCollectReturnReset ==
    /\ taskPc = "build"
    /\ bpc = "ret"
    /\ IF ret[1].ok
       THEN /\ new_info' = Some(ret[1].val)
            /\ taskPc' = "write_wait"
            /\ UNCHANGED info
       ELSE /\ taskPc' = "sleep"
            /\ info' = Some(<<>>)
            /\ UNCHANGED new_info
    /\ bpc' = "idle"
    /\ ret' = None
    /\ hist' = NoHist
    /\ UNCHANGED <<config, backing, agVars, oidcVars, mainPc, result, collected, nsIdx, grp, cl, group_clusters,
                   kube, writer, rpc, view, returned, published>>

\* variant: a failed build ends the loop
TaskCollectReturnBreak ==
    /\ taskPc = "build"
    /\ bpc = "ret"
    /\ IF ret[1].ok
       THEN /\ new_info' = Some(ret[1].val)
            /\ taskPc' = "write_wait"
       ELSE /\ taskPc' = "exited"
            /\ UNCHANGED new_info
    /\ bpc' = "idle"
    /\ ret' = None
    /\ hist' = NoHist
    /\ UNCHANGED <<config, backing, agVars, oidcVars, mainPc, result, collected, nsIdx, grp, cl, group_clusters,
                   kube, info, writer, rpc, view, returned, published>>

\* variant: a successful build is dropped and the task sleeps again
TaskCollectReturnDrop ==
    /\ taskPc = "build"
    /\ bpc = "ret"
    /\ taskPc' = "sleep"
    /\ bpc' = "idle"
    /\ ret' = None
    /\ hist' = NoHist
    /\ UNCHANGED <<config, backing, agVars, oidcVars, mainPc, result, collected, nsIdx, grp, cl, group_clusters,
                   kube, new_info, info, writer, rpc, view, returned, published>>

\* lines 74-81: the build returned; on Ok the task asks for the write lock
TaskCollectReturn ==
    /\ taskPc = "build"
    /\ bpc = "ret"
    /\ IF ret[1].ok
       THEN /\ new_info' = Some(ret[1].val)
            /\ taskPc' = "write_wait"
       ELSE /\ taskPc' = "sleep"
            /\ UNCHANGED new_info
    /\ bpc' = "idle"
    /\ ret' = None
    /\ hist' = NoHist
    /\ UNCHANGED <<config, backing, agVars, oidcVars, mainPc, result, collected, nsIdx, grp, cl, group_clusters,
                   kube, info, writer, rpc, view, returned, published>>

\* line 81: info.write() is granted once no read guard is left
TaskWrite ==
    /\ taskPc = "write_wait"
    /\ ~writer
    /\ \A r \in Readers : rpc[r] = "idle"
    /\ writer' = TRUE
    /\ taskPc' = "write_held"
    /\ UNCHANGED <<config, backing, agVars, oidcVars, mainPc, buildVars, new_info, info, rpc, view, published>>

\* lines 82-83: the assignment, and the guard dropped at the end of the iteration
TaskAssign ==
    /\ taskPc = "write_held"
    /\ info' = Some(new_info[1])
    /\ published' = returned
    /\ new_info' = None
    /\ writer' = FALSE
    /\ taskPc' = "sleep"
    /\ UNCHANGED <<config, backing, agVars, oidcVars, mainPc, buildVars, rpc, view>>

(***************************************************************************)
(* index, once per request r.                                              *)
(***************************************************************************)
\* api.rs line 34: collection.read() is granted; a queued writer goes first
IndexRead(r) ==
    /\ mainPc = "serving"
    /\ rpc[r] = "idle"
    /\ ~writer
    /\ taskPc # "write_wait"
    /\ rpc' = [rpc EXCEPT ![r] = "locked"]
    /\ UNCHANGED <<config, backing, agVars, oidcVars, mainPc, taskPc, buildVars, new_info, info, writer, view,
                   published>>

\* api.rs line 37: collection.clone()
IndexClone(r) ==
    /\ rpc[r] = "locked"
    /\ rpc' = [rpc EXCEPT ![r] = "cloned"]
    /\ view' = [view EXCEPT ![r] = info]
    /\ UNCHANGED <<config, backing, agVars, oidcVars, mainPc, taskPc, buildVars, new_info, info, writer, published>>

\* api.rs lines 35-40: the page is rendered and the read guard dropped
IndexReturn(r) ==
    /\ rpc[r] = "cloned"
    /\ rpc' = [rpc EXCEPT ![r] = "idle"]
    /\ view' = [view EXCEPT ![r] = None]
    /\ UNCHANGED <<config, backing, agVars, oidcVars, mainPc, taskPc, buildVars, new_info, info, writer, published>>

Next ==
    \/ ClientTryDefault
    \/ LocalCollectNamespace
    \/ LocalCollectAll
    \/ KubeconfigSecretGet
    \/ KubeconfigFromCustom
    \/ RemoteCollectNamespace
    \/ RemoteCollectAll
    \/ StartCollectorReturn
    \/ TaskSleep
    \/ TaskCollectReturn
    \/ TaskWrite
    \/ TaskAssign
    \/ \E r \in Readers : IndexRead(r)
    \/ \E r \in Readers : IndexClone(r)
    \/ \E r \in Readers : IndexReturn(r)

Spec == Init /\ [][Next]_vars

\* the steps of collect_for_all_clusters: at most one is enabled at a time
Collect ==
    \/ ClientTryDefault
    \/ LocalCollectNamespace
    \/ LocalCollectAll
    \/ KubeconfigSecretGet
    \/ KubeconfigFromCustom
    \/ RemoteCollectNamespace
    \/ RemoteCollectAll

\* the steps of main and of the task it spawns, builds included; the two never
\* have a step enabled at the same time
Collector ==
    \/ Collect
    \/ StartCollectorReturn
    \/ TaskSleep
    \/ TaskCollectReturn
    \/ TaskWrite
    \/ TaskAssign

\* every network call, timer and lock acquisition eventually returns, and a
\* request that holds the read guard runs to its end; requests need not arrive
Fairness ==
    /\ WF_vars(Collector)
    /\ \A r \in Readers : WF_vars(IndexClone(r) \/ IndexReturn(r))

FairSpec == Init /\ [][Next]_vars /\ Fairness

(***************************************************************************)
(* Properties.                                                             *)
(***************************************************************************)
Names(seq) == [k \in 1..Len(seq) |-> seq[k].name]

\* number of groups that precede the remote groups in a collection
LocalGroups == IF LocalEnabled(config) THEN 1 ELSE 0

RemoteGroupNames == [g \in 1..Len(Remotes(config)) |-> Remotes(config)[g].name]

RECURSIVE KeptNames(_, _)
\* the names of the first n clusters of group g for which collect_from_remote
\* did not return None, in configuration order
KeptNames(g, n) ==
    IF n = 0 THEN <<>>
    ELSE IF <<g, n>> \in hist.omitted THEN KeptNames(g, n - 1)
    ELSE Append(KeptNames(g, n - 1), Remotes(config)[g].clusters[n].name)

InSeq(x, seq) == \E k \in 1..Len(seq) : seq[k] = x

BuildReturnedOk == bpc = "ret" /\ ret[1].ok
BuildReturnedErr == bpc = "ret" /\ ~ret[1].ok

\* C1: whatever a request of index clones under the read lock is the collection
\* returned by one complete successful build, the one last assigned to the handle;
\* the handle never holds anything else while a build is under way.
C1_ReaderSeesOneCompleteBuild ==
    /\ \A r \in Readers : view[r] # None => published # None /\ view[r] = published
    /\ info = published

C1_Witness ==
    \E r \in Readers :
        /\ view[r] # None
        /\ taskPc = "build"
        /\ result # <<>>
        /\ result # SubSeq(view[r][1], 1, Len(result))

\* C2: during a background build the handle is neither written nor write-locked,
\* and when the build returns an error the task goes back to sleeping with the
\* published collection as it was.
C2_FailedRefreshKeepsSnapshot ==
    [][/\ taskPc = "build" => info' = info /\ writer' = writer /\ ~writer
       /\ (taskPc = "build" /\ BuildReturnedErr /\ bpc' # bpc)
              => taskPc' = "sleep" /\ new_info' = None]_vars

C2_Witness ==
    /\ taskPc = "build"
    /\ BuildReturnedErr
    /\ info # None
    /\ info[1] # <<>>

\* C3: a failed first build leaves no handle, no background task and no request
\* served; a successful one puts its result into the handle in the step that
\* spawns the task and starts serving, and no request runs before that.
C3_FirstBuildDecidesStartup ==
    /\ [](mainPc \in {"starting", "failed"}
            => info = None /\ taskPc = "none" /\ \A r \in Readers : rpc[r] = "idle")
    /\ [](mainPc = "serving" => info # None /\ taskPc # "none")
    /\ [][/\ mainPc = "failed" => mainPc' = "failed"
          /\ (mainPc = "starting" /\ mainPc' = "failed") => BuildReturnedErr
          /\ (mainPc = "starting" /\ mainPc' = "serving")
                 => BuildReturnedOk /\ info' = Some(ret[1].val) /\ taskPc' = "sleep"]_vars

C3_Witness ==
    /\ mainPc = "failed"
    /\ LocalEnabled(config)

\* C4: the clusters of every remote group are the configured clusters for which
\* collect_from_remote did not return None, in configuration order, during the
\* build and in what it returns; once the remote groups are reached the build
\* returns Ok.
C4_FailingRemoteIsOmitted ==
    /\ BuildReturnedOk =>
          \A g \in 1..Len(Remotes(config)) :
              /\ g + LocalGroups <= Len(ret[1].val)
              /\ Names(ret[1].val[g + LocalGroups].clusters)
                     = KeptNames(g, Len(Remotes(config)[g].clusters))
    /\ bpc \in RemotePcs =>
          /\ Names(group_clusters) = KeptNames(grp, cl - 1)
          /\ \A g \in 1..(grp - 1) :
                 /\ g + LocalGroups <= Len(result)
                 /\ Names(result[g + LocalGroups].clusters)
                        = KeptNames(g, Len(Remotes(config)[g].clusters))
    /\ (hist.remoteStarted /\ bpc = "ret") => ret[1].ok

C4_Witness ==
    /\ BuildReturnedOk
    /\ Len(Remotes(config)) >= 1
    /\ Len(Remotes(config)[1].clusters) = 2
    /\ <<1, 1>> \in hist.omitted
    /\ Names(ret[1].val[1 + LocalGroups].clusters) = <<Remotes(config)[1].clusters[2].name>>

\* C5 as claimed: a remote cluster of which the scan of a listed namespace failed
\* is absent from its group in the collection the build returns.
C5_FailedNamespaceOmitsCluster ==
    BuildReturnedOk =>
        \A p \in hist.nsFailed :
            ~InSeq(Remotes(config)[p[1]].clusters[p[2]].name,
                   Names(ret[1].val[p[1] + LocalGroups].clusters))

\* the cluster entry that the step leaving cluster cl of group grp pushed
PushedCluster ==
    LET groups == IF ret' # None /\ ret'[1].ok THEN ret'[1].val ELSE result'
        done == IF bpc' \in RemotePcs /\ grp' = grp THEN group_clusters'
                ELSE IF grp + LocalGroups <= Len(groups)
                     THEN groups[grp + LocalGroups].clusters
                ELSE <<>>
    IN IF done = <<>> THEN None ELSE Some(done[Len(done)])

\* C5 as amended: a failing namespace scan is skipped.  The cluster stays in its
\* group, and each scan of a listed namespace adds the records of its answer, or
\* nothing when it failed, to the records the cluster entry is made of.
C5_FailedNamespaceIsSkipped ==
    /\ [](BuildReturnedOk =>
            \A p \in hist.nsFailed :
                /\ p[1] + LocalGroups <= Len(ret[1].val)
                /\ InSeq(Remotes(config)[p[1]].clusters[p[2]].name,
                         Names(ret[1].val[p[1] + LocalGroups].clusters)))
    /\ [][(bpc = "remote_ns" /\ <<bpc', nsIdx'>> # <<bpc, nsIdx>>) =>
            LET remote == Remotes(config)[grp].clusters[cl]
                listed == hist'.lastListed
                records == IF listed = None THEN <<>>
                           ELSE IF listed[1].ok
                                THEN collected \o collect_ingresses(config, listed[1]).val
                           ELSE collected
            IN /\ listed # None
               /\ IF nsIdx < Len(remote.namespaces[1])
                  THEN /\ bpc' = "remote_ns" /\ nsIdx' = nsIdx + 1
                       /\ grp' = grp /\ cl' = cl
                       /\ group_clusters' = group_clusters
                       /\ collected' = records
                  ELSE PushedCluster
                          = Some(transform_to_info(remote.name, remote.description,
                                                   records))]_vars

C5_Witness ==
    /\ BuildReturnedOk
    /\ \E p \in hist.nsFailed :
          \E k \in 1..Len(ret[1].val[p[1] + LocalGroups].clusters) :
              LET c == ret[1].val[p[1] + LocalGroups].clusters[k]
              IN /\ c.name = Remotes(config)[p[1]].clusters[p[2]].name
                 /\ c.ingresses # <<>>

\* C6: when a scan of the enabled local cluster fails, the build returns an error
\* at once: no collection is returned and collect_from_remote is not called.
C6_LocalFailureAbortsBuild ==
    hist.localFailed =>
        /\ LocalEnabled(config)
        /\ BuildReturnedErr
        /\ ret[1].err = [kind |-> "Kube", cause |-> "Api"]
        /\ ~hist.remoteStarted
        /\ hist.omitted = {}
        /\ new_info = None

C6_Witness ==
    /\ hist.localFailed
    /\ taskPc = "build"
    /\ Remotes(config) # <<>>

\* C7 as claimed: with the local cluster absent or disabled the build never
\* returns an error.
C7_NoLocalNeverFails ==
    (~LocalEnabled(config) /\ bpc = "ret") => ret[1].ok

\* C7 as amended: with the local cluster absent or disabled the only error the
\* build returns is the failure to construct the home client, before any cluster
\* is contacted; no failure of a remote cluster makes it fail, and with no remote
\* group it returns the empty list.
C7_NoLocalFailsOnlyOnHomeClient ==
    ~LocalEnabled(config) =>
        /\ BuildReturnedErr =>
              /\ ret[1].err = [kind |-> "Kube", cause |-> "InferConfig"]
              /\ ~hist.remoteStarted
              /\ hist.omitted = {}
        /\ (bpc \notin {"idle", "try_default", "ret"}) => bpc \in RemotePcs
        /\ (BuildReturnedOk /\ Remotes(config) = <<>>) => ret[1].val = <<>>

C7_Witness ==
    /\ ~LocalEnabled(config)
    /\ BuildReturnedOk
    /\ hist.omitted # {}

C9_WriteLockOnlyForAssignment ==
    /\ writer => taskPc = "write_held" /\ bpc = "idle" /\ new_info # None
    /\ bpc \in PendingPcs =>
          /\ ~writer
          /\ taskPc \notin {"write_wait", "write_held"}
          /\ mainPc = "serving" =>
                \A r \in Readers : rpc[r] = "idle" => ENABLED IndexRead(r)

C9_Witness ==
    /\ taskPc = "build"
    /\ bpc \in PendingPcs \ {"try_default"}
    /\ \E r \in Readers : rpc[r] = "locked"

\* C10: under Fairness the background task starts a build again and again; a
\* failed build is followed by another attempt; a successful build is assigned to
\* the handle, and no attempt starts while the handle differs from the last
\* collection a build returned.
C10_RefreshGoesOn ==
    /\ [](mainPc = "serving" => <>(taskPc = "build" /\ bpc = "try_default"))
    /\ (taskPc = "build" /\ BuildReturnedErr) ~> (taskPc = "build" /\ bpc = "try_default")
    /\ (taskPc = "write_wait") ~> (taskPc = "sleep" /\ info = returned)
    /\ [][(taskPc # "build" /\ taskPc' = "build") => info = returned /\ new_info = None]_vars

C10_Witness ==
    /\ taskPc = "write_held"
    /\ new_info # info

(***************************************************************************)
(* One remote cluster aggregated on its own, with every list call          *)
(* answering: collect_from_remote as the composition of kubeconfig,        *)
(* collect_ingresses per namespace and transform_to_info, applied to       *)
(* inputs drawn from bounded sets.                                         *)
(***************************************************************************)
\* length of the object list the first namespace answers
MaxObjects == 2

IngDocs ==
    [name |-> "docs", namespace |-> Some("dev"),
     annotations |-> Some([k \in {DESCRIPTION_ANNOTATION} |-> "Manuals"]),
     labels |-> None,
     spec |-> Some([rules |-> Some(<<[host |-> Some("d.example.com"), http |-> None],
                                    Rule(Some("example.com"),
                                         <<Path(Some("/app"))>>)>>)])]

IngBoth ==
    [name |-> "both", namespace |-> None,
     annotations |-> Some([k \in {NAME_ANNOTATION, DESCRIPTION_ANNOTATION} |->
                              IF k = NAME_ANNOTATION THEN "A" ELSE "B"]),
     labels |-> None,
     spec |-> Some([rules |-> Some(<<Rule(Some("example.com"),
                                         <<Path(None), Path(Some("/app"))>>)>>)])]

IngOther ==
    [name |-> "other", namespace |-> Some("dev"),
     annotations |-> Some([k \in {"team"} |-> "y"]),
     labels |-> None,
     spec |-> Some([rules |-> Some(<<Rule(Some("o.example.com"),
                                         <<Path(Some("/o"))>>)>>)])]

IngNoRules ==
    [name |-> "norules", namespace |-> Some("dev"),
     annotations |-> Some([k \in {NAME_ANNOTATION} |-> "Nothing"]),
     labels |-> None,
     spec |-> Some([rules |-> None])]

RouteObjects == {IngShop, IngApi, IngBare, IngDocs, IngBoth, IngOther, IngNoRules}

SeqsUpTo(S, n) == UNION {[1..k -> S] : k \in 0..n}

\* the answers of the namespaces of one cluster: one list, or two
ScanInputs ==
    {<<first>> : first \in SeqsUpTo(RouteObjects, MaxObjects)}
    \cup {<<first, second>> : first \in SeqsUpTo(RouteObjects, MaxObjects),
                              second \in SeqsUpTo(RouteObjects, 1)}

GlobalInputs == {None, Some(Global(FALSE, None)), Some(Global(TRUE, None))}

\* the collector is not running
CollectorOff ==
    /\ config = Config(None, None, None)
    /\ mainPc = "off"
    /\ taskPc = "none"
    /\ bpc = "idle"
    /\ result = <<>>
    /\ collected = <<>>
    /\ nsIdx = 0
    /\ grp = 0
    /\ cl = 0
    /\ group_clusters = <<>>
    /\ kube = None
    /\ ret = None
    /\ new_info = None
    /\ info = None
    /\ writer = FALSE
    /\ rpc = [r \in Readers |-> "idle"]
    /\ view = [r \in Readers |-> None]
    /\ returned = None
    /\ published = None
    /\ hist = NoHist
    /\ backing = None

ClusterInit ==
    /\ CollectorOff
    /\ OidcIdle
    /\ agStage = "input"
    /\ agGlobal \in GlobalInputs
    /\ agScans \in ScanInputs
    /\ agSecret = None
    /\ agClient = None
    /\ agRecords = <<>>
    /\ agInfo = None

\* collect_from_remote, lines 139-145: the credentials, or the cluster is omitted
ResolveKubeconfig ==
    /\ agStage = "input"
    /\ \E got \in SecretOutcomes :
         /\ agSecret' = Some(got)
         /\ agClient' = Some(kubeconfig(got))
         /\ agStage' = IF kubeconfig(got).ok THEN "resolved" ELSE "omitted"
    /\ UNCHANGED <<collectorVars, oidcVars, agGlobal, agScans, agRecords, agInfo>>

\* ScannedRecords, but the later namespace's records go in front
ScannedRecordsPrepend(global, scans, k) ==
    Flatten([n \in 1..k |->
                collect_ingresses([global |-> global], Ok(scans[k + 1 - n])).val])

\* the records of the k first answers, appended in order
ScannedRecords(global, scans, k) ==
    Flatten([n \in 1..k |-> collect_ingresses([global |-> global], Ok(scans[n])).val])

\* collect_from_remote, lines 147-162: the list calls, each appended to the Vec
ScanCluster ==
    /\ agStage = "resolved"
    /\ agRecords' = ScannedRecords(agGlobal, agScans, Len(agScans))
    /\ agStage' = "scanned"
    /\ UNCHANGED <<collectorVars, oidcVars, agGlobal, agScans, agSecret, agClient, agInfo>>

\* collect_from_remote, lines 155-166: transform_to_info
TransformCluster ==
    /\ agStage = "scanned"
    /\ agInfo' = Some(transform_to_info("cluster", None, agRecords))
    /\ agStage' = "done"
    /\ UNCHANGED <<collectorVars, oidcVars, agGlobal, agScans, agSecret, agClient, agRecords>>

ClusterNext ==
    \/ ResolveKubeconfig
    \/ ScanCluster
    \/ TransformCluster

ClusterSpec == ClusterInit /\ [][ClusterNext]_vars

(***************************************************************************)
(* Claims about one cluster's aggregation.                                 *)
(***************************************************************************)
RECURSIVE SumSeq(_)
SumSeq(ns) == IF ns = <<>> THEN 0 ELSE Head(ns) + SumSeq(Tail(ns))

\* the objects the cluster answered, namespace after namespace
Scanned == Flatten(agScans)

AgOwa == agGlobal # None /\ agGlobal[1].only_with_annotation

HasKey(obj, key) == obj.annotations # None /\ key \in DOMAIN obj.annotations[1]

Recognised(obj) == HasKey(obj, NAME_ANNOTATION) \/ HasKey(obj, DESCRIPTION_ANNOTATION)

Accepted(obj) == ~AgOwa \/ Recognised(obj)

\* the path entries of a rule that has a host
PathCount(rule) ==
    IF rule.host = None \/ rule.http = None THEN 0 ELSE Len(rule.http[1].paths)

\* the sum of PathCount over the rules of an object
FanOut(obj) ==
    IF obj.spec = None \/ obj.spec[1].rules = None THEN 0
    ELSE SumSeq([k \in 1..Len(obj.spec[1].rules[1]) |-> PathCount(obj.spec[1].rules[1][k])])

Occurrences(obj) == Cardinality({k \in DOMAIN Scanned : Scanned[k] = obj})

RecordsOf(obj) == Cardinality({k \in DOMAIN agRecords : agRecords[k].name = obj.name})

AgScanned == agStage \in {"scanned", "done"}

\* C11: every accepted object yields as many records as its rules that have a
\* host count path entries; no spec, no rules, a rule without a host and a rule
\* with a host but without an HTTP block yield none.
C11_FanOutLaw ==
    AgScanned =>
        \A obj \in RouteObjects :
            Accepted(obj) => RecordsOf(obj) = Occurrences(obj) * FanOut(obj)

C11_Witness ==
    /\ agStage = "scanned"
    /\ agScans = <<(<<IngShop, IngDocs>>), (<<IngNoRules>>)>>
    /\ RecordsOf(IngShop) = 2
    /\ RecordsOf(IngDocs) = 1
    /\ RecordsOf(IngNoRules) = 0

\* C12: with onlyWithAnnotation set, an object without any of the two recognised
\* annotation keys contributes no record, whatever its rules; with the flag
\* unset or the global section absent, no object is dropped for its annotations.
C12_AnnotationFilter ==
    AgScanned =>
        \A obj \in RouteObjects :
            /\ (AgOwa /\ ~Recognised(obj)) => RecordsOf(obj) = 0
            /\ ~AgOwa => RecordsOf(obj) = Occurrences(obj) * FanOut(obj)

C12_Witness ==
    /\ agStage = "scanned"
    /\ AgOwa
    /\ agScans = <<(<<IngOther, IngApi>>), (<<IngDocs>>)>>
    /\ FanOut(IngOther) > 0
    /\ FanOut(IngApi) > 0
    /\ Len(agRecords) = RecordsOf(IngDocs)
    /\ RecordsOf(IngDocs) = 1

\* the rules of the object at position o of namespace n, none if it is dropped
RulesAt(n, o) ==
    LET obj == agScans[n][o]
    IN IF ~Accepted(obj) \/ obj.spec = None THEN <<>>
       ELSE UnwrapOr(obj.spec[1].rules, <<>>)

\* the scan positions (namespace, object, rule, path) that carry a path entry
\* under a host
Positions ==
    UNION {UNION {UNION {{<<n, o, r, p>> : p \in 1..PathCount(RulesAt(n, o)[r])}
                         : r \in 1..Len(RulesAt(n, o))}
                  : o \in 1..Len(agScans[n])}
           : n \in 1..Len(agScans)}

LexLess(a, b) ==
    \E i \in 1..4 : a[i] < b[i] /\ \A j \in 1..(i - 1) : a[j] = b[j]

\* the place of a position in scan order
Rank(q) == 1 + Cardinality({x \in Positions : LexLess(x, q)})

UrlOf(host, path) == "https://" \o host \o (IF path = None THEN "/" ELSE path[1])

\* C13: the records, and the routes made of them one for one, are in scan
\* order: namespaces in list order, then objects, rules and paths in order,
\* nothing sorted and nothing removed as a duplicate.
C13_RoutesInScanOrder ==
    /\ AgScanned =>
        /\ Len(agRecords) = Cardinality(Positions)
        /\ \A q \in Positions :
             LET obj == agScans[q[1]][q[2]]
                 rule == RulesAt(q[1], q[2])[q[3]]
                 rec == agRecords[Rank(q)]
             IN /\ rec.name = obj.name
                /\ rec.host = rule.host[1]
                /\ rec.path = rule.http[1].paths[q[4]].path
    /\ agStage = "done" =>
        /\ Len(agInfo[1].ingresses) = Len(agRecords)
        /\ \A q \in Positions :
             LET rule == RulesAt(q[1], q[2])[q[3]]
             IN agInfo[1].ingresses[Rank(q)].url =
                    UrlOf(rule.host[1], rule.http[1].paths[q[4]].path)

C13_Witness ==
    /\ agStage = "done"
    /\ agScans = <<(<<IngShop, IngShop>>), (<<IngBoth>>)>>
    /\ [k \in 1..Len(agInfo[1].ingresses) |-> agInfo[1].ingresses[k].url] =
           <<"https://a.example.com/app", "https://a.example.com/",
             "https://a.example.com/app", "https://a.example.com/",
             "https://example.com/", "https://example.com/app">>

Entries == agInfo[1].ingresses

\* C15: the name of a route is the name annotation's value if the record has
\* one, else the object's name; its description is the description
\* annotation's value if the record has one, else empty; neither field looks
\* at the other annotation.
C15_IndependentOverrides ==
    agStage = "done" =>
        \A k \in 1..Len(agRecords) :
            LET rec == agRecords[k]
            IN /\ Entries[k].name =
                    (IF NAME_ANNOTATION \in DOMAIN rec.annotations
                     THEN rec.annotations[NAME_ANNOTATION] ELSE rec.name)
               /\ Entries[k].description =
                    (IF DESCRIPTION_ANNOTATION \in DOMAIN rec.annotations
                     THEN rec.annotations[DESCRIPTION_ANNOTATION] ELSE "")

C15_Witness ==
    /\ agStage = "done"
    /\ agScans = <<(<<IngBoth, IngShop>>), (<<IngDocs>>)>>
    /\ [k \in 1..Len(Entries) |-> <<Entries[k].name, Entries[k].description>>] =
           <<(<<"A", "B">>), (<<"A", "B">>),
             (<<"Shop", "">>), (<<"Shop", "">>),
             (<<"docs", "Manuals">>)>>

\* C16: the url of a route is "https://", the record's host, and the record's
\* path or "/" when it has none; nothing else of the record enters it.
C16_UrlConstruction ==
    agStage = "done" =>
        \A k \in 1..Len(agRecords) :
            Entries[k].url = UrlOf(agRecords[k].host, agRecords[k].path)

C16_Witness ==
    /\ agStage = "done"
    /\ agScans = <<(<<IngBoth>>)>>
    /\ agRecords[1].host = "example.com" /\ agRecords[1].path = None
    /\ agRecords[2].host = "example.com" /\ agRecords[2].path = Some("/app")
    /\ agRecords[1].tls_used
    /\ Entries[1].url = "https://example.com/"
    /\ Entries[2].url = "https://example.com/app"

(***************************************************************************)
(* The causes for which credential resolution fails.                       *)
(***************************************************************************)
SecretAbsent(got) == ~got.ok

NoValueField(got) ==
    got.ok /\ (got.val.data = None \/ "value" \notin DOMAIN got.val.data[1])

HasValue(got) == got.ok /\ ~NoValueField(got)

Unparsable(got) == HasValue(got) /\ ~got.val.data[1]["value"].yaml

ContextRejected(got) ==
    /\ HasValue(got)
    /\ got.val.data[1]["value"].yaml
    /\ ~got.val.data[1]["value"].context

ClientNotBuilt(got) ==
    /\ HasValue(got)
    /\ got.val.data[1]["value"].yaml
    /\ got.val.data[1]["value"].context
    /\ ~got.val.data[1]["value"].tls

\* the causes the specification files under CredentialMalformed
Malformed(got) == NoValueField(got) \/ Unparsable(got) \/ ClientNotBuilt(got)

AgFailed == agStage = "omitted"

\* C17 as stated: an absent secret fails with a kind that no malformed
\* credential fails with, and a missing value field, an unparsable blob and a
\* client that cannot be built all fail with one kind.
C17_AbsentAndMalformedDiffer ==
    AgFailed =>
        \A other \in SecretOutcomes :
            Malformed(other) =>
                /\ SecretAbsent(agSecret[1]) =>
                       kubeconfig(other).err.kind # agClient[1].err.kind
                /\ Malformed(agSecret[1]) =>
                       kubeconfig(other).err.kind = agClient[1].err.kind

\* C17: an absent secret, a secret without data or without the value field, a
\* blob that does not parse and a kubeconfig that from_custom_kubeconfig rejects
\* all fail with MissingKubeconfig and differ in the message only; a client that
\* cannot be built fails with Kube.
C17_KindsOfFailure ==
    AgFailed =>
        /\ (\/ SecretAbsent(agSecret[1])
            \/ NoValueField(agSecret[1])
            \/ Unparsable(agSecret[1])
            \/ ContextRejected(agSecret[1])) => agClient[1].err.kind = "MissingKubeconfig"
        /\ ClientNotBuilt(agSecret[1]) => agClient[1].err.kind = "Kube"
        /\ \A other \in SecretOutcomes :
             (kubeconfig(other).ok = FALSE /\ kubeconfig(other).err = agClient[1].err) =>
                 /\ SecretAbsent(other) = SecretAbsent(agSecret[1])
                 /\ Unparsable(other) = Unparsable(agSecret[1])
                 /\ ContextRejected(other) = ContextRejected(agSecret[1])
                 /\ ClientNotBuilt(other) = ClientNotBuilt(agSecret[1])

C17_Witness ==
    /\ AgFailed
    /\ SecretAbsent(agSecret[1])
    /\ agClient[1].err.kind = "MissingKubeconfig"
    /\ \E other \in SecretOutcomes :
         /\ NoValueField(other)
         /\ kubeconfig(other).err.kind = agClient[1].err.kind
         /\ kubeconfig(other).err.cause # agClient[1].err.cause

(***************************************************************************)
(* The collector against clusters that do not change: every call has the   *)
(* one answer of the backing state, in every build.  Requests to the index *)
(* page do not enter a build and are left out.                             *)
(***************************************************************************)
StableInit ==
    /\ CollectorInit
    /\ backing \in {Some(b) : b \in Backings(config)}
    /\ AgIdle
    /\ OidcIdle

StableSpec == StableInit /\ [][Collector]_vars

\* C14: against an unchanged backing state every successful run of
\* collect_for_all_clusters returns the same groups, clusters and routes in the
\* same order as the successful run before it.
C14_RebuildIsIdempotent ==
    [][returned # None => returned' = returned]_vars

\* a refresh has rebuilt, with one call failing, what is already published
C14_Witness ==
    /\ taskPc = "write_held"
    /\ backing[1].failing # {}
    /\ new_info = info
    /\ new_info[1] # <<>>
    /\ \E g \in 1..Len(new_info[1]) : new_info[1][g].clusters # <<>>

(***************************************************************************)
(* Claims about the writer of the snapshot.                                *)
(***************************************************************************)
\* a run of collect_for_all_clusters is in progress or has just returned
BuildRunning == bpc # "idle"

\* C18: once start_collector has returned, the handle changes only in the
\* task's assignment under the write guard; a build in progress has exactly one
\* caller, the first build of main or the task, and the task sleeps only with
\* no build in progress; it goes back to sleep only after its build returned
\* and, if that build succeeded, after its result was assigned to the handle.
C18_SingleWriterNoOverlap ==
    /\ [](BuildRunning => ((mainPc = "starting") # (taskPc = "build")))
    /\ [](taskPc = "sleep" => ~BuildRunning /\ new_info = None)
    /\ [][(mainPc = "serving" /\ info' # info) =>
              /\ taskPc = "write_held"
              /\ writer
              /\ info' = new_info
              /\ \A r \in Readers : rpc[r] = "idle" /\ rpc'[r] = "idle"]_vars
    /\ [][(taskPc = "build" /\ taskPc' # "build") =>
              /\ bpc = "ret"
              /\ IF ret[1].ok THEN taskPc' = "write_wait" /\ new_info' = Some(ret[1].val)
                 ELSE taskPc' = "sleep"]_vars
    /\ [][(taskPc # "sleep" /\ taskPc' = "sleep" /\ mainPc = "serving") =>
              \/ taskPc = "build" /\ ~ret[1].ok
              \/ taskPc = "write_held" /\ info' = new_info /\ published' = returned]_vars

C18_Witness ==
    /\ mainPc = "serving"
    /\ taskPc = "write_held"
    /\ writer
    /\ ~BuildRunning
    /\ returned = new_info
    /\ \E r \in Readers : rpc[r] = "idle"

(***************************************************************************)
(* The OIDC middleware oidc_layer (api.rs), installed when OIDC_ISSUER is  *)
(* set: every request locks the shared InnerOidcState, renews the layer if *)
(* it is missing or counted as expired, and is forwarded through it with   *)
(* the guard still held.  Time is counted in seconds since                 *)
(* init_oidc_state.                                                        *)
(***************************************************************************)
\* number of concurrent requests
NumRequests == 2
\* largest OIDC_RENEWAL_INTERVAL_SECONDS of the model
MaxInterval == 1

\* the clock stops here
MaxTime == MaxInterval + 2

Requests == 1..NumRequests

OidcPcs ==
    {"idle",            \* no request
     "waiting",         \* line 98: state.lock() is pending
     "locked",          \* line 98: the guard is held
     "discovering",     \* lines 59-66: discover_client is pending
     "renewed",         \* line 106: after the if
     "forwarding",      \* line 111: service.call is pending
     "panic_discover",  \* line 67: expect("Could not initialize OIDC client")
     "panic_layer"}     \* line 109: expect("Layer must have been initialized")

\* api.rs lines 74-91 and 143-146: init_oidc_state
OidcInit ==
    /\ CollectorOff
    /\ AgIdle
    /\ now = 0
    /\ layer = None
    /\ last_update = 0
    /\ renewal_interval \in {None} \cup {Some(d) : d \in 1..MaxInterval}
    /\ holder = 0
    /\ qpc = [q \in Requests |-> "idle"]

\* Instant::elapsed
Elapsed(since) == now - since

\* lines 99-105: whether renew_layer is called
NeedsRenewal ==
    \/ layer = None
    \/ /\ renewal_interval # None
       /\ Elapsed(last_update) > renewal_interval[1]

\* a second passes
Tick ==
    /\ now < MaxTime
    /\ now' = now + 1
    /\ UNCHANGED <<collectorVars, agVars, layer, last_update, renewal_interval, holder, qpc>>

\* a request enters oidc_layer and asks for the mutex
OidcArrive(q) ==
    /\ qpc[q] = "idle"
    /\ qpc' = [qpc EXCEPT ![q] = "waiting"]
    /\ UNCHANGED <<collectorVars, agVars, now, layer, last_update, renewal_interval, holder>>

\* variant: the state is read without the mutex
OidcLockShared(q) ==
    /\ qpc[q] = "waiting"
    /\ holder' = q
    /\ qpc' = [qpc EXCEPT ![q] = "locked"]
    /\ UNCHANGED <<collectorVars, agVars, now, layer, last_update, renewal_interval>>

\* line 98: state.lock().await is granted
OidcLock(q) ==
    /\ qpc[q] = "waiting"
    /\ holder = 0
    /\ holder' = q
    /\ qpc' = [qpc EXCEPT ![q] = "locked"]
    /\ UNCHANGED <<collectorVars, agVars, now, layer, last_update, renewal_interval>>

\* lines 99-105: the request calls renew_layer or goes on with the layer it found
OidcCheck(q) ==
    /\ qpc[q] = "locked"
    /\ qpc' = [qpc EXCEPT ![q] = IF NeedsRenewal THEN "discovering" ELSE "renewed"]
    /\ UNCHANGED <<collectorVars, agVars, now, layer, last_update, renewal_interval, holder>>

\* lines 59-68: discover_client returns; an error panics and unwinding drops the guard
OidcDiscovered(q) ==
    /\ qpc[q] = "discovering"
    /\ \E ok \in BOOLEAN :
         IF ok
         THEN /\ layer' = Some(now)
              /\ qpc' = [qpc EXCEPT ![q] = "renewed"]
              /\ UNCHANGED holder
         ELSE /\ qpc' = [qpc EXCEPT ![q] = "panic_discover"]
              /\ holder' = IF holder = q THEN 0 ELSE holder
              /\ UNCHANGED layer
    /\ UNCHANGED <<collectorVars, agVars, now, last_update, renewal_interval>>

\* lines 106-111: the layer is unwrapped and the request handed to it
OidcForward(q) ==
    /\ qpc[q] = "renewed"
    /\ IF layer = None
       THEN /\ qpc' = [qpc EXCEPT ![q] = "panic_layer"]
            /\ holder' = IF holder = q THEN 0 ELSE holder
       ELSE /\ qpc' = [qpc EXCEPT ![q] = "forwarding"]
            /\ UNCHANGED holder
    /\ UNCHANGED <<collectorVars, agVars, now, layer, last_update, renewal_interval>>

\* lines 111-112: the inner service answered, or the panicked request is gone;
\* the guard is dropped with the handler's frame
OidcReturn(q) ==
    /\ qpc[q] \in {"forwarding", "panic_discover", "panic_layer"}
    /\ qpc' = [qpc EXCEPT ![q] = "idle"]
    /\ holder' = IF holder = q THEN 0 ELSE holder
    /\ UNCHANGED <<collectorVars, agVars, now, layer, last_update, renewal_interval>>

OidcNext ==
    \/ Tick
    \/ \E q \in Requests : OidcArrive(q)
    \/ \E q \in Requests : OidcLock(q)
    \/ \E q \in Requests : OidcCheck(q)
    \/ \E q \in Requests : OidcDiscovered(q)
    \/ \E q \in Requests : OidcForward(q)
    \/ \E q \in Requests : OidcReturn(q)

OidcSpec == OidcInit /\ [][OidcNext]_vars

(***************************************************************************)
(* Claims about the OIDC middleware.                                       *)
(***************************************************************************)
\* C19 as stated: with a renewal interval configured, a request calls
\* renew_layer on an initialised layer only when more than the interval has
\* passed since the discovery that layer is from.
C19_RenewalAtMostOncePerInterval ==
    [][\A q \in Requests :
          (/\ qpc[q] = "locked"
           /\ qpc'[q] = "discovering"
           /\ layer # None
           /\ renewal_interval # None) => Elapsed(layer[1]) > renewal_interval[1]]_vars

\* C20: a request is forwarded only with the layer initialised and the expect
\* on the layer never fires; the mutex is held by the one request that is past
\* lock(), so at most one discovery is in progress; a request that finds no
\* layer discovers before it is forwarded.
C20_ForwardedThroughInitialisedLayer ==
    /\ [](\A q \in Requests :
             /\ qpc[q] = "forwarding" => layer # None
             /\ qpc[q] # "panic_layer"
             /\ qpc[q] \in {"locked", "discovering", "renewed", "forwarding"} => holder = q)
    /\ [](Cardinality({q \in Requests : qpc[q] = "discovering"}) <= 1)
    /\ [][\A q \in Requests :
             (qpc[q] = "locked" /\ layer = None) => qpc'[q] \in {"locked", "discovering"}]_vars

\* the first request is being forwarded through the layer it discovered while
\* another request waits for the mutex
C20_Witness ==
    /\ \E q \in Requests :
         /\ qpc[q] = "forwarding"
         /\ holder = q
         /\ \E w \in Requests : qpc[w] = "waiting"
    /\ layer = Some(now)

=============================================================================
